---- MODULE Spec2Model ----
(***************************************************************************)
(* ESP32-CAM Smart Zone Switch: the zone/relay engine (ZoneManager), the   *)
(* control loop with its watchdog (smartswitch.ino) and the web request    *)
(* handlers that call the engine from the async TCP task.                  *)
(*                                                                         *)
(* Times are millis() values.  Normalised detection coordinates are        *)
(* thousandths (250 is 0.25).  A zone's numRelays is the length of its     *)
(* relayPins.                                                              *)
(***************************************************************************)
EXTENDS Integers, Sequences, FiniteSets, TLC

VARIABLES
  zones,                \* config->zones : std::vector<Zone>
  relayStates,          \* ZoneManager::relayStates : std::vector<RelayState>
  zoneDetectionCounts,  \* ZoneManager::zoneDetectionCounts
  totalDetections,      \* ZoneManager::totalDetections
  gpio,                 \* physical level of each GPIO pin
  relayActiveHigh,      \* config->relayActiveHigh
  now,                  \* millis()
  writes,               \* digitalWrite calls issued by the last operation
  lastOp,               \* the last operation, its argument and what it met
  wifiUp,               \* WiFi.status() == WL_CONNECTED
  connected,            \* MJPEGStream::connected
  clientConnected,      \* MJPEGStream::client.connected()
  wasConnected,         \* loop()'s static wasConnected
  lastFrameTime,        \* smartswitch.ino lastFrameTime
  lastErrorLog,         \* loop()'s static lastErrorLog
  autoRelayControl,     \* globalConfig.autoRelayControl
  watchdogTimeout,      \* globalConfig.watchdogTimeout, in seconds
  lastFetched,          \* when fetchFrame last returned a frame, -1 before the first
  liveFrames,           \* frame buffers malloc'ed by fetchFrame and not freed
  buffer,               \* MJPEGStream::buffer[0 .. bufferPos - 1]
  stream,               \* what the camera serves on this connection
  wire,                 \* bytes the camera has still to send on this connection
  boundaryFound,        \* MJPEGStream::boundaryFound
  fetch,                \* the loop task inside MJPEGStream::fetchFrame
  delivered,            \* the frames fetchFrame has returned on this connection
  httpOpen,             \* MJPEGStream::http holds a session: GET answered, no http.end() yet
  upd,                  \* the loop task inside ZoneManager::update
  stop,                 \* the web task inside ZoneManager::disableAllRelays
  snap                  \* the engine as the first of two overlapping calls found it

engineVars == <<zones, relayStates, zoneDetectionCounts, totalDetections, gpio,
                relayActiveHigh, now, writes, lastOp>>
streamVars == <<buffer, stream, wire, boundaryFound, fetch, delivered, httpOpen>>
loopVars == <<wifiUp, connected, clientConnected, wasConnected, lastFrameTime,
              lastErrorLog, autoRelayControl, watchdogTimeout, lastFetched, liveFrames, streamVars>>
taskVars == <<upd, stop, snap>>
vars == <<engineVars, loopVars, taskVars>>

----------------------------------------------------------------------------
(* Program constants *)

MAX_ZONES == 10
MAX_RELAYS_PER_ZONE == 4
FRAME_WIDTH == 640
FRAME_HEIGHT == 480
MaxReadAttempts == 50
WATCHDOG_TIMEOUT == 60000
ERROR_LOG_INTERVAL == 5000

(* Bounds of the model *)

MaxTableLen == 2      \* zones the table may hold in the model
MaxSeconds == 2       \* millis() stops advancing after this many seconds
MaxCount == 1         \* detection and activation counters stop here
MaxLiveFrames == 2    \* frame buffers the loop may hold before the heap is taken as full
BufferSize == 24      \* MJPEG_BUFFER_SIZE, 100 KiB in the code
LowWater == 3         \* the buffer is topped up below this, 1024 in the code
Slack == 7            \* a part is given up within this of BufferSize, 10000 in the code
MinJpegBytes == 2     \* a single-frame response must exceed this, 100 in the code
MaxLoopSeconds == 121 \* millis() stops advancing here when the control loop runs

(* Inputs *)

PinSet == {12, 13, 14}

\* the pins of the model: those initializeRelays drives, and GPIO 6, which is
\* wired to the flash chip and is an input until something configures it
GpioPins == PinSet \cup {6}
ZoneIds == {1, 2}
TickSteps == {1000}
LeftRect == [x |-> 10, y |-> 10, width |-> 140, height |-> 220]
RightRect == [x |-> 170, y |-> 10, width |-> 140, height |-> 220]

\* the motion detector's blob (160,120,320,240) and a box in the top-left corner
BlobBox == [x |-> 250, y |-> 250, width |-> 500, height |-> 500]
CornerBox == [x |-> 0, y |-> 0, width |-> 200, height |-> 200]
DetectionSets == SUBSET {BlobBox, CornerBox}

\* a zone as parseZoneJSON builds it from a request body
parseZoneJSON(id, rect, pins, timeout) ==
  [id |-> id, x |-> rect.x, y |-> rect.y, width |-> rect.width,
   height |-> rect.height, relayPins |-> pins, timeout |-> timeout,
   active |-> FALSE, lastDetectionTime |-> 0]

\* the requests of the model: zone A drives relay 12, zone B relays 12 and 13
ZoneInputs ==
  {parseZoneJSON(1, LeftRect, <<12>>, 1), parseZoneJSON(2, RightRect, <<12, 13>>, 2)}

----------------------------------------------------------------------------
(* The engine state as one value, so that the methods compose *)

Engine ==
  [zones |-> zones, relayStates |-> relayStates, counts |-> zoneDetectionCounts,
   total |-> totalDetections, gpio |-> gpio, writes |-> 0]

OffLevel == IF relayActiveHigh THEN "LOW" ELSE "HIGH"
OnLevel == IF relayActiveHigh THEN "HIGH" ELSE "LOW"

setRelayPinState_activeHighOnly(e, pin, active) ==
  [e EXCEPT !.gpio[pin] = IF active THEN "HIGH" ELSE "LOW",
            !.writes = @ + 1]

setRelayPinState(e, pin, active) ==
  [e EXCEPT !.gpio[pin] = IF active THEN OnLevel ELSE OffLevel,
            !.writes = @ + 1]

getRelayStatePtr(rs, pin) ==
  IF \E k \in 1..Len(rs) : rs[k].pin = pin
  THEN CHOOSE k \in 1..Len(rs) : rs[k].pin = pin /\ \A m \in 1..(k - 1) : rs[m].pin # pin
  ELSE 0

getRelayState(rs, pin) ==
  LET k == getRelayStatePtr(rs, pin) IN IF k = 0 THEN FALSE ELSE rs[k].active

initializeRelayState(e, pin) ==
  IF getRelayStatePtr(e.relayStates, pin) # 0 THEN e
  ELSE [e EXCEPT !.relayStates = Append(@, [pin |-> pin, active |-> FALSE,
                                            lastActivationTime |-> 0,
                                            activationCount |-> 0]),
                 !.gpio[pin] = OffLevel,
                 !.writes = @ + 1]

\* activateRelay without the test of the active flag
activateRelay_unguarded(e, pin, t) ==
  LET k == getRelayStatePtr(e.relayStates, pin) IN
  IF k # 0
  THEN [setRelayPinState(e, pin, TRUE) EXCEPT
          !.relayStates[k] = [@ EXCEPT !.active = TRUE,
                                       !.lastActivationTime = t,
                                       !.activationCount = @ + 1]]
  ELSE e

activateRelay(e, pin, t) ==
  LET k == getRelayStatePtr(e.relayStates, pin) IN
  IF k # 0 /\ ~e.relayStates[k].active
  THEN [setRelayPinState(e, pin, TRUE) EXCEPT
          !.relayStates[k] = [@ EXCEPT !.active = TRUE,
                                       !.lastActivationTime = t,
                                       !.activationCount = @ + 1]]
  ELSE e

deactivateRelay_releasingZones(e, pin) ==
  LET k == getRelayStatePtr(e.relayStates, pin) IN
  IF k # 0 /\ e.relayStates[k].active
  THEN [setRelayPinState(e, pin, FALSE) EXCEPT
          !.relayStates[k].active = FALSE,
          !.zones = [i \in 1..Len(@) |-> [@[i] EXCEPT !.active = FALSE]]]
  ELSE e

deactivateRelay(e, pin) ==
  LET k == getRelayStatePtr(e.relayStates, pin) IN
  IF k # 0 /\ e.relayStates[k].active
  THEN [setRelayPinState(e, pin, FALSE) EXCEPT !.relayStates[k].active = FALSE]
  ELSE e

RECURSIVE updateRelayForZoneFrom(_, _, _, _)
updateRelayForZoneFrom(e, zone, i, t) ==
  IF i > Len(zone.relayPins) THEN e
  ELSE updateRelayForZoneFrom(activateRelay(e, zone.relayPins[i], t), zone, i + 1, t)

updateRelayForZone(e, zone, t) == updateRelayForZoneFrom(e, zone, 1, t)

checkOverlap(detection, zone, frameWidth, frameHeight) ==
  LET detX == (detection.x * frameWidth) \div 1000
      detY == (detection.y * frameHeight) \div 1000
      detWidth == (detection.width * frameWidth) \div 1000
      detHeight == (detection.height * frameHeight) \div 1000
  IN  /\ detX < zone.x + zone.width
      /\ detX + detWidth > zone.x
      /\ detY < zone.y + zone.height
      /\ detY + detHeight > zone.y

\* the inner loops of updateZoneState: is pin used by another active zone
usedByOtherZone(zs, zone, pin) ==
  \E k \in 1..Len(zs) :
    /\ zs[k].id # zone.id
    /\ zs[k].active
    /\ \E j \in 1..Len(zs[k].relayPins) : zs[k].relayPins[j] = pin

RECURSIVE releaseRelaysFrom(_, _, _)
releaseRelaysFrom(e, zone, i) ==
  IF i > Len(zone.relayPins) THEN e
  ELSE releaseRelaysFrom(
         IF usedByOtherZone(e.zones, zone, zone.relayPins[i]) THEN e
         ELSE deactivateRelay(e, zone.relayPins[i]),
         zone, i + 1)

\* the timeout test with > in place of >=
timeoutExpired_strict(zone, t) ==
  LET elapsed == t - zone.lastDetectionTime
      timeoutMs == zone.timeout * 1000
  IN  IF timeoutMs < 0 THEN FALSE ELSE elapsed > timeoutMs

\* elapsed >= (unsigned long)(zone->timeout * 1000).  Times here stay below
\* 2^31 and lastDetectionTime never exceeds t, so the unsigned subtraction
\* does not wrap; a negative product converts to a value of 2^31 or more,
\* which no such elapsed time reaches.
timeoutExpired(zone, t) ==
  LET elapsed == t - zone.lastDetectionTime
      timeoutMs == zone.timeout * 1000
  IN  IF timeoutMs < 0 THEN FALSE ELSE elapsed >= timeoutMs

\* updateZoneState testing the timeout before the detection
updateZoneState_timeoutFirst(e, i, detected, t) ==
  IF e.zones[i].active /\ timeoutExpired(e.zones[i], t)
  THEN LET e1 == [e EXCEPT !.zones[i].active = FALSE]
       IN  releaseRelaysFrom(e1, e1.zones[i], 1)
  ELSE IF detected
       THEN LET e1 == [e EXCEPT !.zones[i].active = TRUE,
                                !.zones[i].lastDetectionTime = t]
            IN  updateRelayForZone(e1, e1.zones[i], t)
       ELSE e

updateZoneState_everyRelay(e, i, detected, t) ==
  IF detected
  THEN LET e1 == [e EXCEPT !.zones[i].active = TRUE,
                           !.zones[i].lastDetectionTime = t]
       IN  activateRelay(activateRelay(e1, 12, t), 13, t)
  ELSE IF e.zones[i].active /\ timeoutExpired(e.zones[i], t)
       THEN LET e1 == [e EXCEPT !.zones[i].active = FALSE]
            IN  releaseRelaysFrom(e1, e1.zones[i], 1)
       ELSE e

updateZoneState(e, i, detected, t) ==
  IF detected
  THEN LET e1 == [e EXCEPT !.zones[i].active = TRUE,
                           !.zones[i].lastDetectionTime = t]
       IN  updateRelayForZone(e1, e1.zones[i], t)
  ELSE IF e.zones[i].active /\ timeoutExpired(e.zones[i], t)
       THEN LET e1 == [e EXCEPT !.zones[i].active = FALSE]
            IN  releaseRelaysFrom(e1, e1.zones[i], 1)
       ELSE e

RECURSIVE updateFrom(_, _, _, _, _, _)
updateFrom(e, i, detections, frameWidth, frameHeight, t) ==
  IF i > Len(e.zones) THEN e
  ELSE LET detected == \E d \in detections :
                         checkOverlap(d, e.zones[i], frameWidth, frameHeight)
           e1 == IF detected
                 THEN [e EXCEPT !.counts[i] = @ + 1, !.total = @ + 1]
                 ELSE e
       IN  updateFrom(updateZoneState(e1, i, detected, t), i + 1,
                      detections, frameWidth, frameHeight, t)

update_withoutTotal(e, detections, frameWidth, frameHeight, t) ==
  [updateFrom(e, 1, detections, frameWidth, frameHeight, t) EXCEPT !.total = e.total]

update(e, detections, frameWidth, frameHeight, t) ==
  updateFrom(e, 1, detections, frameWidth, frameHeight, t)

RECURSIVE disableRelaysFrom(_, _)
disableRelaysFrom(e, k) ==
  IF k > Len(e.relayStates) THEN e
  ELSE disableRelaysFrom(
         [setRelayPinState(e, e.relayStates[k].pin, FALSE) EXCEPT
            !.relayStates[k].active = FALSE],
         k + 1)

\* disableAllRelays without its second loop
disableAllRelays_relaysOnly(e) == disableRelaysFrom(e, 1)

disableAllRelays(e) ==
  LET e1 == disableRelaysFrom(e, 1) IN
  [e1 EXCEPT !.zones = [i \in 1..Len(e1.zones) |-> [e1.zones[i] EXCEPT !.active = FALSE]]]

RECURSIVE initializeRelaysFrom(_, _, _)
initializeRelaysFrom(e, pins, i) ==
  IF i > Len(pins) THEN e
  ELSE initializeRelaysFrom(initializeRelayState(e, pins[i]), pins, i + 1)

addZoneOk_unlimited(e) == Len(e.zones) <= MAX_ZONES

addZoneOk(e) == Len(e.zones) < MAX_ZONES

addZone(e, zone) ==
  IF ~addZoneOk(e) THEN e
  ELSE initializeRelaysFrom([e EXCEPT !.zones = Append(@, zone),
                                      !.counts = Append(@, 0)],
                            zone.relayPins, 1)

\* index of the first zone with this id, 0 when there is none
findZone(zs, zoneId) ==
  IF \E i \in 1..Len(zs) : zs[i].id = zoneId
  THEN CHOOSE i \in 1..Len(zs) : zs[i].id = zoneId /\ \A m \in 1..(i - 1) : zs[m].id # zoneId
  ELSE 0

erase(s, i) == [k \in 1..(Len(s) - 1) |-> IF k < i THEN s[k] ELSE s[k + 1]]

RECURSIVE deactivatePinsFrom(_, _, _)
deactivatePinsFrom(e, pins, j) ==
  IF j > Len(pins) THEN e
  ELSE deactivatePinsFrom(deactivateRelay(e, pins[j]), pins, j + 1)

removeZone(e, zoneId) ==
  LET i == findZone(e.zones, zoneId) IN
  IF i = 0 THEN e
  ELSE LET e1 == IF e.zones[i].active
                 THEN deactivatePinsFrom([e EXCEPT !.zones[i].active = FALSE],
                                         e.zones[i].relayPins, 1)
                 ELSE e
       IN  [e1 EXCEPT !.zones = erase(@, i), !.counts = erase(@, i)]

resetStatistics(e) ==
  [e EXCEPT !.total = 0,
            !.counts = [i \in 1..Len(@) |-> 0],
            !.relayStates = [k \in 1..Len(@) |-> [@[k] EXCEPT !.activationCount = 0]]]

updateZone(e, zoneId, zone) ==
  LET i == findZone(e.zones, zoneId) IN
  IF i = 0 THEN e ELSE [e EXCEPT !.zones[i] = zone]

----------------------------------------------------------------------------
(* State after setup(): initializeRelays(), then the zones of zones.json or *)
(* of setDefaultConfig(), then ZoneManager::begin()                        *)

DefaultZones ==
  << [id |-> 1, x |-> 10, y |-> 10, width |-> 140, height |-> 220,
      relayPins |-> <<12>>, timeout |-> 5, active |-> FALSE, lastDetectionTime |-> 0],
     [id |-> 2, x |-> 170, y |-> 10, width |-> 140, height |-> 220,
      relayPins |-> <<13>>, timeout |-> 5, active |-> FALSE, lastDetectionTime |-> 0] >>

\* zones.json as saved after the two requests of ZoneInputs
SavedZones ==
  << parseZoneJSON(1, LeftRect, <<12>>, 1), parseZoneJSON(2, RightRect, <<12, 13>>, 2) >>

\* ZoneManager::begin on a fresh manager
begin(zs) ==
  LET e0 == [zones |-> zs, relayStates |-> << >>, counts |-> [i \in 1..Len(zs) |-> 0],
             total |-> 0,
             gpio |-> [p \in GpioPins |-> IF p \in PinSet THEN "LOW" ELSE "INPUT"],
             writes |-> 0]
      RECURSIVE zonesFrom(_, _)
      zonesFrom(e, i) ==
        IF i > Len(zs) THEN e
        ELSE zonesFrom(initializeRelaysFrom(e, zs[i].relayPins, 1), i + 1)
  IN  zonesFrom(e0, 1)

\* a task that is in neither engine call
IdleTask == [pc |-> "idle", i |-> 0, j |-> 0, k |-> 0, detections |-> {}]

\* the loop task outside fetchFrame
IdleFetch == [pc |-> "idle", readAttempts |-> 0]

\* no request has been answered yet
NoStream == [kind |-> "none", contentType |-> << >>, frames |-> << >>]

\* the state after setup(), but for globalConfig.autoRelayControl
Boot ==
  /\ relayActiveHigh \in BOOLEAN
  /\ \E zs \in {DefaultZones, SavedZones} :
       LET e == begin(zs) IN
       /\ zones = e.zones
       /\ relayStates = e.relayStates
       /\ zoneDetectionCounts = e.counts
       /\ totalDetections = e.total
       /\ gpio = e.gpio
  /\ now = 0
  /\ writes = 0
  /\ lastOp = [op |-> "setup", arg |-> 0, tags |-> {}]
  /\ wifiUp = TRUE
  /\ connected = FALSE
  /\ clientConnected = FALSE
  /\ wasConnected = FALSE
  /\ lastFrameTime = now
  /\ lastErrorLog = 0
  /\ lastFetched = -1
  /\ liveFrames = 0
  /\ buffer = << >>
  /\ stream = NoStream
  /\ httpOpen = FALSE
  /\ wire = << >>
  /\ boundaryFound = FALSE
  /\ fetch = IdleFetch
  /\ delivered = << >>
  /\ upd = IdleTask
  /\ stop = IdleTask
  /\ snap = << >>

\* globalConfig is a global that neither setDefaultConfig nor
\* loadConfigFromSPIFFS completes: autoRelayControl keeps its zero
Init == Boot /\ autoRelayControl = FALSE /\ watchdogTimeout = 60

----------------------------------------------------------------------------
(* One action per entry point of ZoneManager, each a whole call *)

WithinBounds(e) ==
  /\ Len(e.zones) <= MaxTableLen
  /\ e.total <= MaxCount * MaxTableLen
  /\ \A i \in 1..Len(e.counts) : e.counts[i] <= MaxCount
  /\ \A k \in 1..Len(e.relayStates) : e.relayStates[k].activationCount <= MaxCount

Commit(e, op, arg, tags) ==
  /\ WithinBounds(e)
  /\ zones' = e.zones
  /\ relayStates' = e.relayStates
  /\ zoneDetectionCounts' = e.counts
  /\ totalDetections' = e.total
  /\ gpio' = e.gpio
  /\ writes' = e.writes
  /\ lastOp' = [op |-> op, arg |-> arg, tags |-> tags]
  /\ UNCHANGED <<relayActiveHigh, now>>

overlapped(zone, detections) ==
  \E d \in detections : checkOverlap(d, zone, FRAME_WIDTH, FRAME_HEIGHT)

\* what an update() call met, for the record in lastOp
UpdateTags(e, detections, post) ==
  LET Z == 1..Len(e.zones)
      shares(i, p) == \E j \in 1..Len(e.zones[i].relayPins) : e.zones[i].relayPins[j] = p
      timedOut(i) == e.zones[i].active /\ ~post.zones[i].active
  IN  {"activated" : i \in {i \in Z : ~e.zones[i].active /\ overlapped(e.zones[i], detections)}}
      \cup {"crowd" : i \in {i \in Z :
               Cardinality({d \in detections : overlapped(e.zones[i], {d})}) > 1}}
      \cup {"refreshed" : i \in {i \in Z : /\ e.zones[i].active
                                            /\ overlapped(e.zones[i], detections)
                                            /\ e.zones[i].lastDetectionTime < now}}
      \cup {"lateRefresh" : i \in {i \in Z : /\ e.zones[i].active
                                              /\ overlapped(e.zones[i], detections)
                                              /\ timeoutExpired(e.zones[i], now)}}
      \cup {"kept" : i \in {i \in Z : /\ e.zones[i].active /\ post.zones[i].active
                                       /\ ~overlapped(e.zones[i], detections)
                                       /\ e.zones[i].lastDetectionTime < now}}
      \cup {"timedOut" : i \in {i \in Z : timedOut(i)}}
      \cup {"sharedKept" : i \in {i \in Z : /\ timedOut(i)
                                             /\ \E p \in PinSet : /\ shares(i, p)
                                                                  /\ getRelayState(post.relayStates, p)}}
      \cup {"released" : i \in {i \in Z : /\ timedOut(i)
                                           /\ \E p \in PinSet : /\ shares(i, p)
                                                                /\ getRelayState(e.relayStates, p)
                                                                /\ ~getRelayState(post.relayStates, p)}}

UpdateWith(detections) ==
  LET post == update(Engine, detections, FRAME_WIDTH, FRAME_HEIGHT, now)
  IN  Commit(post, "update", 0, UpdateTags(Engine, detections, post))

Update ==
  \E detections \in DetectionSets :
    UpdateWith(detections) /\ UNCHANGED <<loopVars, taskVars>>

\* what a manual relay command met: the relay's state, and whether the command
\* repeats the one before it
RelayTags(op, pin) ==
  (IF getRelayStatePtr(relayStates, pin) = 0 THEN {"unknown"}
   ELSE IF getRelayState(relayStates, pin) THEN {"wasOn"} ELSE {"wasOff"})
  \cup (IF lastOp.op = op /\ lastOp.arg = pin
        THEN (IF writes > 0 THEN {"repeatAfterWrite"} ELSE {"repeat"})
        ELSE {})

\* the body WebServerManager::handleSetRelay sends once both parameters are
\* present, whatever the engine did with the pin
handleSetRelayReply == "success"

ActivateRelayPin(pin) ==
  Commit(activateRelay(Engine, pin, now), "activateRelay", pin,
         RelayTags("activateRelay", pin) \cup {handleSetRelayReply})

ActivateRelay ==
  \E pin \in PinSet : ActivateRelayPin(pin) /\ UNCHANGED <<loopVars, taskVars>>

DeactivateRelayPin(pin) ==
  Commit(deactivateRelay(Engine, pin), "deactivateRelay", pin,
         RelayTags("deactivateRelay", pin) \cup {handleSetRelayReply})

DeactivateRelay ==
  \E pin \in PinSet : DeactivateRelayPin(pin) /\ UNCHANGED <<loopVars, taskVars>>

DisableAllRelays ==
  /\ UNCHANGED <<loopVars, taskVars>>
  /\ Commit(disableAllRelays(Engine), "disableAllRelays", 0,
         {"hadActiveZone" : i \in {i \in 1..Len(zones) :
             zones[i].active /\ ~timeoutExpired(zones[i], now)}}
         \cup {"hadRelayOn" : k \in {k \in 1..Len(relayStates) : relayStates[k].active}}
         \cup {"hadManualOn" : k \in {k \in 1..Len(relayStates) :
             /\ relayStates[k].active
             /\ \A i \in 1..Len(zones) :
                  zones[i].active =>
                    \A j \in 1..Len(zones[i].relayPins) :
                      zones[i].relayPins[j] # relayStates[k].pin}})

AddZone ==
  \E zone \in ZoneInputs :
    /\ UNCHANGED <<loopVars, taskVars>>
    /\ Commit(addZone(Engine, zone), "addZone", zone.id,
           IF addZoneOk(Engine) THEN {"ok"} ELSE {"failed"})

RemoveZoneId(zoneId) ==
  LET i == findZone(zones, zoneId) IN
  Commit(removeZone(Engine, zoneId), "removeZone", zoneId,
         IF i = 0 THEN {"failed"}
         ELSE {"ok"} \cup (IF zones[i].active THEN {"wasActive"} ELSE {}))

RemoveZone ==
  \E zoneId \in ZoneIds : RemoveZoneId(zoneId) /\ UNCHANGED <<loopVars, taskVars>>

UpdateZone ==
  \E zone \in ZoneInputs :
    /\ UNCHANGED <<loopVars, taskVars>>
    /\ Commit(updateZone(Engine, zone.id, zone), "updateZone", zone.id,
           IF findZone(zones, zone.id) = 0 THEN {"failed"} ELSE {"ok"})

ResetStatistics ==
  /\ Commit(resetStatistics(Engine), "resetStatistics", 0, {})
  /\ UNCHANGED <<loopVars, taskVars>>

Tick ==
  /\ \E d \in TickSteps :
       /\ now + d <= MaxSeconds * 1000
       /\ now' = now + d
  /\ UNCHANGED <<zones, relayStates, zoneDetectionCounts, totalDetections, gpio,
                 relayActiveHigh, writes, lastOp, loopVars, taskVars>>

Next ==
  \/ Update
  \/ ActivateRelay
  \/ DeactivateRelay
  \/ DisableAllRelays
  \/ ResetStatistics
  \/ Tick

Spec == Init /\ [][Next]_vars

\* zone requests from the web interface, with the engine running on its own
NextZones ==
  \/ Update
  \/ DisableAllRelays
  \/ AddZone
  \/ RemoveZone
  \/ UpdateZone
  \/ ResetStatistics
  \/ Tick

SpecZones == Init /\ [][NextZones]_vars

\* elapsed >= (unsigned long)(zone->timeout * 1000) at full width: unsigned
\* long is 32 bits, written here as <<high, low>> halves of 16 bits; timeout is
\* an int, its product with 1000 is taken modulo 2^32 as the multiply
\* instruction leaves it, and currentTime - lastDetectionTime wraps likewise
timeoutExpired32(timeout, lastDetectionTime, currentTime) ==
  LET half == 65536
      low == currentTime[2] - lastDetectionTime[2]
      high == currentTime[1] - lastDetectionTime[1] - (IF low < 0 THEN 1 ELSE 0)
      elapsed == <<high % half, low % half>>
      productLow == (timeout % half) * 1000
      productHigh == ((timeout \div half) % half) * 1000 + (productLow \div half)
      timeoutMs == <<productHigh % half, productLow % half>>
  IN  \/ elapsed[1] > timeoutMs[1]
      \/ elapsed[1] = timeoutMs[1] /\ elapsed[2] >= timeoutMs[2]

\* the timeout test on timeouts that parseZoneJSON accepts (0, negative, past
\* the int range once multiplied), on detection times up to the wrap of
\* millis(), and the tick made `real` milliseconds after the detection
SpecTimeout ==
  Init
  /\ [][\E timeout \in {0, 1, 5, -1, -5, 2147484, 4294968},
           lastDetectionTime \in {<<0, 0>>, <<0, 5000>>, <<32768, 0>>, <<65535, 65036>>},
           real \in {0, 1, 999, 1000, 4999, 5000, 65536000} :
          LET low == lastDetectionTime[2] + (real % 65536)
              high == lastDetectionTime[1] + (real \div 65536) + (low \div 65536)
              currentTime == <<high % 65536, low % 65536>>
          IN /\ Commit(Engine, "timeout", <<timeout, lastDetectionTime, real>>,
                       (IF timeoutExpired32(timeout, lastDetectionTime, currentTime)
                        THEN {"expired"} ELSE {})
                       \cup (IF high >= 65536 THEN {"wrapped"} ELSE {}))
             /\ UNCHANGED <<loopVars, taskVars>>]_vars

\* frames with up to three detections, two of them inside the left zone
CrowdSets ==
  SUBSET {BlobBox, CornerBox, [x |-> 100, y |-> 100, width |-> 50, height |-> 100]}

\* update() on crowded frames, between the requests that change the counters
SpecCounts ==
  Init /\ [][\/ \E detections \in CrowdSets :
                  UpdateWith(detections) /\ UNCHANGED <<loopVars, taskVars>>
             \/ ResetStatistics
             \/ AddZone
             \/ RemoveZone]_vars

\* the safe-pin list of utils.cpp
validateGPIOPin(pin) ==
  pin \in {2, 4, 5, 12, 13, 14, 15, 18, 19, 21, 22, 23, 25, 26, 27, 32, 33}

\* a request body that names GPIO 6
UnsafeZone(id) == parseZoneJSON(id, LeftRect, <<6>>, 1)

\* handleAddZone, handleUpdateZone and handleSetRelay on a request that names
\* GPIO 6
UnsafePinRequest ==
  /\ UNCHANGED <<loopVars, taskVars>>
  /\ \/ Commit(addZone(Engine, UnsafeZone(3)), "addZone", 3,
               IF addZoneOk(Engine) THEN {"ok"} ELSE {"failed"})
     \/ \E zoneId \in ZoneIds :
          Commit(updateZone(Engine, zoneId, UnsafeZone(zoneId)), "updateZone", zoneId,
                 IF findZone(zones, zoneId) = 0 THEN {"failed"} ELSE {"ok"})
     \/ Commit(activateRelay(Engine, 6, now), "activateRelay", 6,
               RelayTags("activateRelay", 6) \cup {handleSetRelayReply})

\* the zone requests, some of them naming a pin outside the safe list
SpecPins ==
  Init /\ [][UnsafePinRequest \/ Update \/ RemoveZone \/ DisableAllRelays \/ Tick]_vars

----------------------------------------------------------------------------
(* The control loop, one action per path through loop(), with the web       *)
(* requests and the network events that reach it                            *)

WaitSteps == {60000, 60001}

\* what MotionDetector::detectMotion can report for a frame: nothing, or the
\* one blob (width/4, height/4, width/2, height/2)
FrameDetections == {{}, {BlobBox}}

\* MJPEGStream::isConnected
isConnected == connected /\ clientConnected

\* lastFrameTime after the "camera first connects" reset
frameTimeAfterConnect == IF wasConnected THEN lastFrameTime ELSE now

watchdogExpired == now - frameTimeAfterConnect > WATCHDOG_TIMEOUT

\* WiFi.status() != WL_CONNECTED: reconnect, delay, return
LoopWifiDown ==
  /\ ~wifiUp
  /\ Commit(Engine, "loop", now, {"wifiDown"})
  /\ UNCHANGED <<loopVars, taskVars>>

\* !isConnected: wasConnected = false, delay, return
LoopNotConnected ==
  /\ wifiUp /\ ~isConnected
  /\ wasConnected' = FALSE
  /\ Commit(Engine, "loop", now, {"notConnected"})
  /\ UNCHANGED <<wifiUp, connected, clientConnected, lastFrameTime, lastErrorLog,
                 autoRelayControl, watchdogTimeout, lastFetched, liveFrames, streamVars, taskVars>>

\* the watchdog branch: disableAllRelays, disconnect, return
LoopWatchdog ==
  /\ wifiUp /\ isConnected /\ watchdogExpired
  /\ wasConnected' = TRUE
  /\ lastFrameTime' = frameTimeAfterConnect
  /\ connected' = FALSE
  /\ clientConnected' = FALSE
  /\ Commit(disableAllRelays(Engine), "loop", now, {"watchdog"})
  /\ UNCHANGED <<wifiUp, lastErrorLog, autoRelayControl, watchdogTimeout, lastFetched, liveFrames, streamVars, taskVars>>

\* fetchFrame returned a frame
LoopFrame ==
  /\ wifiUp /\ isConnected /\ ~watchdogExpired
  /\ wasConnected' = TRUE
  /\ lastFrameTime' = now
  /\ lastFetched' = now
  /\ liveFrames < MaxLiveFrames
  /\ liveFrames' = liveFrames + 1
  /\ \E detections \in FrameDetections :
       Commit(IF autoRelayControl
              THEN update(Engine, detections, FRAME_WIDTH, FRAME_HEIGHT, now)
              ELSE Engine,
              "loop", now,
              {"frame"} \cup (IF autoRelayControl THEN {"update"} ELSE {}))
  /\ UNCHANGED <<wifiUp, connected, clientConnected, lastErrorLog, autoRelayControl, watchdogTimeout,
                 streamVars, taskVars>>

\* fetchFrame returned false; lost: readMoreData found the stream gone and
\* cleared connected
LoopFetchFailed ==
  /\ wifiUp /\ isConnected /\ ~watchdogExpired
  /\ wasConnected' = TRUE
  /\ lastFrameTime' = frameTimeAfterConnect
  /\ \E lost \in BOOLEAN :
       IF now - lastErrorLog > ERROR_LOG_INTERVAL
       THEN /\ lastErrorLog' = now
            /\ connected' = FALSE
            /\ clientConnected' = FALSE
            /\ Commit(Engine, "loop", now, {"fetchFailed", "disconnected"})
       ELSE /\ lastErrorLog' = lastErrorLog
            /\ connected' = (connected /\ ~lost)
            /\ clientConnected' = (clientConnected /\ ~lost)
            /\ Commit(Engine, "loop", now, {"fetchFailed"})
  /\ UNCHANGED <<wifiUp, autoRelayControl, watchdogTimeout, lastFetched, liveFrames, streamVars, taskVars>>

loop ==
  \/ LoopWifiDown
  \/ LoopNotConnected
  \/ LoopWatchdog
  \/ LoopFrame
  \/ LoopFetchFailed

\* WebServerManager::handleStartCamera; success: the GET answered 200
StartCamera ==
  /\ \E success \in BOOLEAN :
       IF isConnected
       THEN UNCHANGED <<connected, clientConnected>>
       ELSE /\ connected' = (connected \/ (success /\ wifiUp))
            /\ clientConnected' = (success /\ wifiUp)
  /\ UNCHANGED <<engineVars, wifiUp, wasConnected, lastFrameTime, lastErrorLog,
                 autoRelayControl, watchdogTimeout, lastFetched, liveFrames, streamVars, taskVars>>

disconnect_unguarded(session) ==
  [connected |-> FALSE, clientConnected |-> FALSE, released |-> 1]

\* MJPEGStream::disconnect on a session; released counts its http.end() and
\* client.stop() pairs
disconnect(session) ==
  IF session.connected
  THEN [connected |-> FALSE, clientConnected |-> FALSE, released |-> 1]
  ELSE [connected |-> session.connected, clientConnected |-> session.clientConnected,
        released |-> 0]

\* WebServerManager::handleStopCamera
StopCamera ==
  /\ LET after == disconnect([connected |-> connected,
                              clientConnected |-> clientConnected])
     IN /\ connected' = after.connected
        /\ clientConnected' = after.clientConnected
  /\ UNCHANGED <<engineVars, wifiUp, wasConnected, lastFrameTime, lastErrorLog,
                 autoRelayControl, watchdogTimeout, lastFetched, liveFrames, streamVars, taskVars>>

\* the access point goes away, taking the camera socket with it, or comes back
WifiChange ==
  /\ wifiUp' = ~wifiUp
  /\ clientConnected' = FALSE
  /\ UNCHANGED <<engineVars, connected, wasConnected, lastFrameTime, lastErrorLog,
                 autoRelayControl, watchdogTimeout, lastFetched, liveFrames, streamVars, taskVars>>

\* the camera closes the stream socket
SocketDrop ==
  /\ clientConnected
  /\ clientConnected' = FALSE
  /\ UNCHANGED <<engineVars, wifiUp, connected, wasConnected, lastFrameTime,
                 lastErrorLog, autoRelayControl, watchdogTimeout, lastFetched, liveFrames, streamVars, taskVars>>

Wait ==
  /\ \E d \in WaitSteps :
       /\ now + d <= MaxLoopSeconds * 1000
       /\ now' = now + d
  /\ UNCHANGED <<zones, relayStates, zoneDetectionCounts, totalDetections, gpio,
                 relayActiveHigh, writes, lastOp, loopVars, taskVars>>

\* of the relay requests only POST /api/relay with state=true is followed here
NextLoop ==
  \/ loop
  \/ ActivateRelay
  \/ StartCamera
  \/ StopCamera
  \/ WifiChange
  \/ SocketDrop
  \/ Wait

\* a first boot: no config.json, so setDefaultConfig()
InitLoop == Init /\ zones = DefaultZones

SpecLoop == InitLoop /\ [][NextLoop]_vars

\* a boot that finds a config.json with a system.watchdogTimeout of its own:
\* the default or a shorter one
InitWatchdog ==
  Boot /\ autoRelayControl = FALSE /\ zones = DefaultZones
       /\ watchdogTimeout \in {30, 60}

SpecWatchdog == InitWatchdog /\ [][NextLoop]_vars

\* the one POST /api/camera/start a user sends after boot; from then on the
\* device is left to itself
FirstStartCamera == lastOp.op = "setup" /\ StartCamera

NextRetry ==
  \/ loop
  \/ FirstStartCamera
  \/ WifiChange
  \/ SocketDrop
  \/ Wait

\* the Arduino core calls loop() again as soon as it has returned
SpecRetry == InitLoop /\ [][NextRetry]_vars /\ WF_vars(loop)

\* a whole call on a table that only MAX_ZONES limits
TableCommit(e, op, arg, tags) ==
  /\ \A k \in 1..Len(e.relayStates) : e.relayStates[k].activationCount <= MaxCount
  /\ zones' = e.zones
  /\ relayStates' = e.relayStates
  /\ zoneDetectionCounts' = e.counts
  /\ totalDetections' = e.total
  /\ gpio' = e.gpio
  /\ writes' = e.writes
  /\ lastOp' = [op |-> op, arg |-> arg, tags |-> tags]
  /\ UNCHANGED <<relayActiveHigh, now, loopVars, taskVars>>

\* WebServerManager::handleAddZone: 200 when addZone returned true, else 500
TableAddZone ==
  \E zone \in ZoneInputs :
    TableCommit(addZone(Engine, zone), "addZone", zone.id,
                IF addZoneOk(Engine) THEN {"ok"} ELSE {"failed"})

\* WebServerManager::handleDeleteZone: 200 when removeZone returned true, else 404
TableRemoveZone ==
  \E zoneId \in ZoneIds :
    TableCommit(removeZone(Engine, zoneId), "removeZone", zoneId,
                IF findZone(zones, zoneId) = 0 THEN {"failed"} ELSE {"ok"})

\* WebServerManager::handleUpdateZone: 200 when updateZone returned true, else 404
TableUpdateZone ==
  \E zone \in ZoneInputs :
    TableCommit(updateZone(Engine, zone.id, zone), "updateZone", zone.id,
                IF findZone(zones, zone.id) = 0 THEN {"failed"} ELSE {"ok"})

\* WebServerManager::handleSetRelay with state=true
TableActivateRelay ==
  \E pin \in PinSet :
    TableCommit(activateRelay(Engine, pin, now), "activateRelay", pin,
                {handleSetRelayReply})

\* the zone requests alone, from a first boot, up to a full table
NextTable ==
  \/ TableAddZone
  \/ TableRemoveZone
  \/ TableUpdateZone
  \/ TableActivateRelay

SpecTable == InitLoop /\ [][NextTable]_vars

(* checkOverlap on its own: detections in thousandths of the frame, as the   *)
(* engine operators take them, and zone rectangles as parseZoneJSON accepts  *)
(* them, which is any integers                                              *)

OverlapDetections ==
  {[x |-> x, y |-> y, width |-> w, height |-> h] :
     x \in {0, 500}, y \in {0, 500}, w \in {1, 100}, h \in {1, 100}}

OverlapZones ==
  {[x |-> x, y |-> y, width |-> w, height |-> h] :
     x \in {0, 300, 330, 384}, y \in {0, 220, 288}, w \in {0, 10, 40}, h \in {0, 10, 40}}

\* the (int) conversions of checkOverlap
pixelBox(detection, frameWidth, frameHeight) ==
  [x |-> (detection.x * frameWidth) \div 1000,
   y |-> (detection.y * frameHeight) \div 1000,
   width |-> (detection.width * frameWidth) \div 1000,
   height |-> (detection.height * frameHeight) \div 1000]

\* one checkOverlap call, as updateFrom makes it for a detection and a zone
CheckOverlap ==
  \E detection \in OverlapDetections, zone \in OverlapZones :
    /\ Commit(Engine, "checkOverlap", <<detection, zone>>,
              IF checkOverlap(detection, zone, FRAME_WIDTH, FRAME_HEIGHT)
              THEN {"overlap"} ELSE {})
    /\ UNCHANGED <<loopVars, taskVars>>

SpecOverlap == InitLoop /\ [][CheckOverlap]_vars

----------------------------------------------------------------------------
(* MJPEGStream: the byte buffer and the parser of extractFrame.  Positions  *)
(* are the 0-based indices of the code; bytes are named by strings, "r" and *)
(* "n" for CR and LF, "FF" "D8" "D9" for the JPEG markers.                  *)

\* char boundary[] after connectToStream: "--" followed by the token of the
\* Content-Type header
boundary == <<"-", "b">>
headerEnd == <<"r", "n", "r", "n">>

Min(S) == CHOOSE m \in S : \A k \in S : m <= k
Max(S) == CHOOSE m \in S : \A k \in S : m >= k

\* memcmp(&buffer[i], pat, strlen(pat)) == 0
memcmp(buf, i, pat) == \A k \in 1..Len(pat) : buf[i + k] = pat[k]

\* memmove(buffer, &buffer[from], bufferPos - from); bufferPos -= from
memmove(buf, from) == SubSeq(buf, from + 1, Len(buf))

\* the scan of findBoundaryInBuffer when bufferPos >= strlen(boundary)
findBoundaryInBuffer(buf) ==
  LET hits == {i \in 0..(Len(buf) - Len(boundary) - 1) : memcmp(buf, i, boundary)}
  IN  IF hits = {} THEN -1 ELSE Min(hits)

\* the indices of the bytes that findBoundaryInBuffer hands to memcmp: i runs
\* below bufferPos - strlen(boundary), a size_t that wraps to a bound above
\* every index of the buffer when bufferPos is the smaller, so that the scan
\* goes on through the whole array and past it until bytes match
scannedBytes(buf) ==
  IF Len(buf) >= Len(boundary)
  THEN {i + k : i \in 0..(Len(buf) - Len(boundary) - 1), k \in 0..(Len(boundary) - 1)}
  ELSE 0..(BufferSize + Len(boundary) - 1)

skipHeaders_atTerminator(buf, searchPos) ==
  LET hits == {p \in searchPos..(Len(buf) - 4) : memcmp(buf, p, headerEnd)}
  IN  IF hits = {} THEN Max({searchPos, Len(buf) - 3}) ELSE Min(hits) + 3

\* searchPos after the loop that looks for \r\n\r\n from searchPos on
skipHeaders(buf, searchPos) ==
  LET hits == {p \in searchPos..(Len(buf) - 4) : memcmp(buf, p, headerEnd)}
  IN  IF hits = {} THEN Max({searchPos, Len(buf) - 3}) ELSE Min(hits) + 4

\* nextBoundary after the scan from jpegStart
findNextBoundary(buf, jpegStart) ==
  LET hits == {i \in jpegStart..(Len(buf) - Len(boundary) - 1) : memcmp(buf, i, boundary)}
  IN  IF hits = {} THEN -1 ELSE Min(hits)

\* one pass of the while (true) body of extractFrame below the low-water
\* read, on a buffer that findBoundaryInBuffer can scan
parsePass(buf) ==
  LET boundaryPos == findBoundaryInBuffer(buf)
      searchPos == skipHeaders(buf, boundaryPos + Len(boundary))
      nextBoundary == findNextBoundary(buf, searchPos)
      needData == [kind |-> "needData", buffer |-> buf, frame |-> << >>]
  IN  IF boundaryPos = -1 THEN needData
      ELSE IF searchPos >= Len(buf) - 3 THEN needData
      ELSE IF nextBoundary = -1
           THEN IF Len(buf) - searchPos > BufferSize - Slack
                THEN [kind |-> "tooLarge", buffer |-> memmove(buf, searchPos),
                      frame |-> << >>]
                ELSE needData
      ELSE IF nextBoundary - searchPos > 0 /\ nextBoundary - searchPos < BufferSize
           THEN [kind |-> "frame", buffer |-> memmove(buf, nextBoundary),
                 frame |-> SubSeq(buf, searchPos + 1, nextBoundary)]
           ELSE [kind |-> "invalid", buffer |-> memmove(buf, nextBoundary),
                 frame |-> << >>]

\* what one readMoreData call can leave: socketUp is stream->connected(),
\* available the bytes that have arrived so far
readMoreData(buf, w, socketUp) ==
  IF ~socketUp
  THEN {[ok |-> FALSE, buffer |-> buf, wire |-> w, connected |-> FALSE]}
  ELSE {IF available = 0
        THEN [ok |-> Len(buf) > 0, buffer |-> buf, wire |-> w, connected |-> TRUE]
        ELSE LET full == Min({available, BufferSize - Len(buf)}) = 0
                 keepSize == Len(buf) \div 2
                 kept == IF full THEN memmove(buf, Len(buf) - keepSize) ELSE buf
                 toRead == Min({available, BufferSize - Len(kept)})
             IN  [ok |-> toRead > 0,
                  buffer |-> kept \o SubSeq(w, 1, toRead),
                  wire |-> SubSeq(w, toRead + 1, Len(w)),
                  connected |-> TRUE] :
        available \in 0..Len(w)}

(* What the camera can answer to the GET of connectToStream *)

FrameX == <<"x">>
FrameYY == <<"y", "y">>
\* a payload whose part takes more than half of the buffer
FrameOverHalf == [k \in 1..(BufferSize \div 2 - 4) |-> "x"]
\* the longest payload that is not given up as too large
FrameAtLimit == [k \in 1..(BufferSize - Slack - Len(boundary)) |-> "y"]
\* a payload that is given up as too large
Junk == [k \in 1..(BufferSize - Slack + 3) |-> "z"]

\* one part: boundary, blank line, payload
Part(payload) == boundary \o headerEnd \o payload

RECURSIVE Parts(_)
Parts(frames) ==
  IF frames = << >> THEN << >> ELSE Part(Head(frames)) \o Parts(Tail(frames))

\* the parts, the boundary that closes the last of them and the first byte of
\* what follows
Multipart(frames) == Parts(frames) \o boundary \o <<"r">>

SingleJpeg == <<"FF", "D8", "x", "FF", "D9">>

\* boundaryFound as connectToStream leaves it for a Content-Type header, the
\* header being the sequence of its words
connectToStream(contentType) ==
  LET indexOf(word) ==
        IF \E k \in 1..Len(contentType) : contentType[k] = word
        THEN Min({k \in 1..Len(contentType) : contentType[k] = word}) - 1
        ELSE -1
  IN IF indexOf("multipart") >= 0
     THEN TRUE   \* with the boundary of the header, or "--myboundary" without one
     ELSE FALSE

\* the cameras of the model; the third names no boundary in its header and
\* separates its parts with the common default
Responses ==
  {[kind |-> "multipart", contentType |-> <<"multipart", "boundary=", "b">>,
    frames |-> <<FrameX, FrameYY>>],
   [kind |-> "multipart", contentType |-> <<"multipart", "boundary=", "b">>,
    frames |-> <<FrameAtLimit, FrameX>>],
   [kind |-> "multipart", contentType |-> <<"multipart">>,
    frames |-> <<FrameX>>],
   [kind |-> "oversized", contentType |-> <<"multipart", "boundary=", "b">>,
    frames |-> <<FrameX>>],
   [kind |-> "oversized", contentType |-> <<"multipart", "boundary=", "b">>,
    frames |-> <<FrameOverHalf>>],
   [kind |-> "single", contentType |-> <<"image/jpeg">>,
    frames |-> <<SingleJpeg>>]}

\* the body of a response, byte by byte
Body(response) ==
  CASE response.kind = "multipart" -> Multipart(response.frames)
    [] response.kind = "oversized" -> Part(Junk) \o Multipart(response.frames)
    [] response.kind = "single" -> SingleJpeg

(* The stream session, one action per step of fetchFrame between two reads *)

otherVars ==
  <<engineVars, wifiUp, wasConnected, lastFrameTime, lastErrorLog, autoRelayControl, watchdogTimeout,
    lastFetched, taskVars>>

\* handleStartCamera -> begin -> connectToStream
StreamStart ==
  /\ wifiUp /\ ~isConnected /\ fetch.pc = "idle"
  /\ \/ /\ clientConnected' = FALSE
        /\ httpOpen' = FALSE
        /\ UNCHANGED <<connected, buffer, stream, wire, boundaryFound, fetch, delivered>>
     \/ \E response \in Responses :
          /\ connected' = TRUE
          /\ clientConnected' = TRUE
          /\ httpOpen' = TRUE
          /\ boundaryFound' = connectToStream(response.contentType)
          /\ buffer' = << >>
          /\ stream' = response
          /\ wire' = Body(response)
          /\ delivered' = << >>
          /\ UNCHANGED fetch
  /\ UNCHANGED <<otherVars, liveFrames>>

\* the camera closes the socket; what it had not sent is lost
CameraClose ==
  /\ clientConnected
  /\ clientConnected' = FALSE
  /\ wire' = << >>
  /\ UNCHANGED <<otherVars, httpOpen, liveFrames, connected, buffer, stream, boundaryFound,
                 fetch, delivered>>

\* loop() calls fetchFrame on a connected stream
FetchCall ==
  /\ wifiUp /\ isConnected /\ fetch.pc = "idle"
  /\ fetch' = [pc |-> IF boundaryFound THEN "top" ELSE "single", readAttempts |-> 0]
  /\ UNCHANGED <<otherVars, httpOpen, liveFrames, connected, clientConnected, buffer, stream,
                 wire, boundaryFound, delivered>>

\* a readMoreData call; onTrue is where the caller goes on when it returned
\* true, and fetchFrame returns false when it did not
Read(onTrue) ==
  \E r \in readMoreData(buffer, wire, clientConnected) :
    /\ buffer' = r.buffer
    /\ wire' = r.wire
    /\ connected' = (connected /\ r.connected)
    /\ fetch' = IF r.ok THEN [fetch EXCEPT !.pc = onTrue] ELSE IdleFetch
    /\ UNCHANGED <<otherVars, httpOpen, liveFrames, clientConnected, stream, boundaryFound,
                   delivered>>

\* the head of the while (true) body: top up a buffer that runs low
FetchTop ==
  /\ fetch.pc = "top"
  /\ IF Len(buffer) < LowWater
     THEN Read("scan")
     ELSE /\ fetch' = [fetch EXCEPT !.pc = "scan"]
          /\ UNCHANGED <<otherVars, httpOpen, liveFrames, connected, clientConnected, buffer,
                         stream, wire, boundaryFound, delivered>>

\* fetchFrame returns the frame: malloc, memcpy, compaction of the buffer
\* (malloc returns nullptr once MaxLiveFrames buffers are held)
ReturnFrame(pass) ==
  /\ fetch' = IdleFetch
  /\ UNCHANGED <<otherVars, httpOpen, connected, clientConnected, stream, wire, boundaryFound>>
  /\ IF liveFrames < MaxLiveFrames
     THEN /\ liveFrames' = liveFrames + 1
          /\ delivered' = Append(delivered, pass.frame)
          /\ buffer' = pass.buffer
     ELSE UNCHANGED <<liveFrames, delivered, buffer>>

\* the rest of the body on a buffer of at least strlen(boundary) bytes
FetchScan ==
  /\ fetch.pc = "scan" /\ Len(buffer) >= Len(boundary)
  /\ LET pass == parsePass(buffer) IN
     CASE pass.kind = "frame" -> ReturnFrame(pass)
       [] pass.kind = "needData" ->
            /\ fetch' = [fetch EXCEPT !.pc = "read"]
            /\ UNCHANGED <<otherVars, httpOpen, liveFrames, connected, clientConnected, buffer,
                           stream, wire, boundaryFound, delivered>>
       [] OTHER ->
            /\ buffer' = pass.buffer
            /\ fetch' = [fetch EXCEPT !.pc = "top"]
            /\ UNCHANGED <<otherVars, httpOpen, liveFrames, connected, clientConnected, stream,
                           wire, boundaryFound, delivered>>

\* findBoundaryInBuffer on fewer bytes than the boundary has: the unsigned
\* bound bufferPos - strlen(boundary) wraps and the scan leaves the buffer.
\* It ends on bytes that happen to match, at an index past which no header
\* can be looked for, so the body asks for more data
FetchScanShort ==
  /\ fetch.pc = "scan" /\ Len(buffer) < Len(boundary)
  /\ fetch' = [fetch EXCEPT !.pc = "read"]
  /\ UNCHANGED <<otherVars, httpOpen, liveFrames, connected, clientConnected, buffer, stream,
                 wire, boundaryFound, delivered>>

\* or it runs into memory that cannot be read: the chip resets and setup()
\* runs again
FetchScanFault ==
  /\ fetch.pc = "scan" /\ Len(buffer) < Len(boundary)
  /\ connected' = FALSE
  /\ clientConnected' = FALSE
  /\ liveFrames' = 0
  /\ buffer' = << >>
  /\ stream' = NoStream
  /\ wire' = << >>
  /\ boundaryFound' = FALSE
  /\ fetch' = IdleFetch
  /\ delivered' = << >>
  /\ httpOpen' = FALSE
  /\ UNCHANGED otherVars

\* the readMoreData call of a pass that needs more data, then continue
FetchRead == fetch.pc = "read" /\ Read("top")

FetchSingleRead_unbounded ==
  /\ fetch.pc = "single"
  /\ \E r \in readMoreData(buffer, wire, clientConnected) :
       /\ buffer' = r.buffer
       /\ wire' = r.wire
       /\ connected' = (connected /\ r.connected)
       /\ fetch' = IF r.ok
                   THEN [fetch EXCEPT !.readAttempts = @ + 1]
                   ELSE [fetch EXCEPT !.pc = "singleEnd"]
  /\ UNCHANGED <<otherVars, httpOpen, liveFrames, clientConnected, stream, boundaryFound,
                 delivered>>

\* single-frame mode: while (readMoreData() && readAttempts < 50)
FetchSingleRead ==
  /\ fetch.pc = "single"
  /\ \E r \in readMoreData(buffer, wire, clientConnected) :
       /\ buffer' = r.buffer
       /\ wire' = r.wire
       /\ connected' = (connected /\ r.connected)
       /\ fetch' = IF r.ok /\ fetch.readAttempts < MaxReadAttempts
                   THEN [fetch EXCEPT !.readAttempts = @ + 1]
                   ELSE [fetch EXCEPT !.pc = "singleEnd"]
  /\ UNCHANGED <<otherVars, httpOpen, liveFrames, clientConnected, stream, boundaryFound,
                 delivered>>

\* the first FF D8 of the buffer, -1 when there is none
findJpegStart(buf) ==
  LET hits == {i \in 0..(Len(buf) - 2) : memcmp(buf, i, <<"FF", "D8">>)}
  IN  IF hits = {} THEN -1 ELSE Min(hits)

\* the end of the last FF D9 found at an index above 0, -1 when there is none
findJpegEnd(buf) ==
  LET hits == {i \in 1..(Len(buf) - 2) : memcmp(buf, i, <<"FF", "D9">>)}
  IN  IF hits = {} THEN -1 ELSE Max(hits) + 2

\* single-frame mode after the reads: take the JPEG out of the buffer, and
\* disconnect() when one was found
FetchSingleEnd ==
  /\ fetch.pc = "singleEnd"
  /\ buffer' = << >>
  /\ fetch' = IdleFetch
  /\ LET jpegStart == findJpegStart(buffer)
         jpegEnd == findJpegEnd(buffer)
     IN  IF /\ Len(buffer) > MinJpegBytes
            /\ jpegStart >= 0 /\ jpegEnd > jpegStart
            /\ liveFrames < MaxLiveFrames
         THEN /\ liveFrames' = liveFrames + 1
              /\ delivered' = Append(delivered, SubSeq(buffer, jpegStart + 1, jpegEnd))
              /\ connected' = FALSE
              /\ clientConnected' = (IF connected THEN FALSE ELSE clientConnected)
              /\ wire' = (IF connected THEN << >> ELSE wire)
              /\ httpOpen' = (IF connected THEN FALSE ELSE httpOpen)
         ELSE UNCHANGED <<liveFrames, delivered, connected, clientConnected, wire,
                          httpOpen>>
  /\ UNCHANGED <<otherVars, stream, boundaryFound>>

\* MJPEGStream::fetchFrame, from the call to the return
fetchFrame ==
  \/ FetchCall
  \/ FetchTop
  \/ FetchScan
  \/ FetchScanShort
  \/ FetchScanFault
  \/ FetchRead
  \/ FetchSingleRead
  \/ FetchSingleEnd

NextStream ==
  \/ StreamStart
  \/ CameraClose
  \/ fetchFrame

\* loop() runs again and again, and a call it made goes on to its next step
SpecStream == InitLoop /\ [][NextStream]_vars /\ WF_vars(fetchFrame)

----------------------------------------------------------------------------
(* Two tasks in the engine at once: the loop task in update() (the call of  *)
(* loop(), made when autoRelayControl is set) and the async TCP task in     *)
(* disableAllRelays() (handleEmergencyStop).  No engine function takes a    *)
(* lock, so each access to the tables is a step of its own; writes and      *)
(* lastOp record whole calls and are left alone here.                       *)

inBody(task) == task.pc \notin {"idle", "done"}

\* the relay that the task's zone names at position j
pinAt(task) == zones[task.i].relayPins[task.j]

\* loop(): if (globalConfig.autoRelayControl) zoneManager.update(...)
UpdCall ==
  /\ autoRelayControl
  /\ upd.pc = "idle" /\ stop.pc # "done"
  /\ \E detections \in DetectionSets :
       upd' = [IdleTask EXCEPT !.pc = "zone", !.i = 1, !.detections = detections]
  /\ snap' = IF stop.pc = "idle" THEN Engine ELSE snap
  /\ UNCHANGED <<engineVars, loopVars, stop>>

\* update(): the body of the loop over zones, up to the first relay call
UpdZone ==
  /\ upd.pc = "zone"
  /\ IF upd.i > Len(zones)
     THEN /\ upd' = [upd EXCEPT !.pc = "done"]
          /\ UNCHANGED <<zones, zoneDetectionCounts, totalDetections>>
     ELSE IF overlapped(zones[upd.i], upd.detections)
     THEN /\ zoneDetectionCounts[upd.i] < MaxCount
          /\ totalDetections < MaxCount * MaxTableLen
          /\ zoneDetectionCounts' = [zoneDetectionCounts EXCEPT ![upd.i] = @ + 1]
          /\ totalDetections' = totalDetections + 1
          /\ zones' = [zones EXCEPT ![upd.i].active = TRUE,
                                    ![upd.i].lastDetectionTime = now]
          /\ upd' = [upd EXCEPT !.pc = "act", !.j = 1]
     ELSE IF zones[upd.i].active /\ timeoutExpired(zones[upd.i], now)
     THEN /\ zones' = [zones EXCEPT ![upd.i].active = FALSE]
          /\ upd' = [upd EXCEPT !.pc = "rel", !.j = 1]
          /\ UNCHANGED <<zoneDetectionCounts, totalDetections>>
     ELSE /\ upd' = [upd EXCEPT !.i = @ + 1]
          /\ UNCHANGED <<zones, zoneDetectionCounts, totalDetections>>
  /\ UNCHANGED <<relayStates, gpio, relayActiveHigh, now, writes, lastOp,
                 loopVars, stop, snap>>

\* updateRelayForZone / activateRelay: the test of state->active
UpdAct ==
  /\ upd.pc = "act" /\ upd.i <= Len(zones)
  /\ IF upd.j > Len(zones[upd.i].relayPins)
     THEN upd' = [upd EXCEPT !.pc = "zone", !.i = @ + 1]
     ELSE LET k == getRelayStatePtr(relayStates, pinAt(upd)) IN
          IF k # 0 /\ ~relayStates[k].active
          THEN upd' = [upd EXCEPT !.pc = "actWrite", !.k = k]
          ELSE upd' = [upd EXCEPT !.j = @ + 1]
  /\ UNCHANGED <<engineVars, loopVars, stop, snap>>

\* activateRelay: setRelayPinState(pin, true)
UpdActWrite ==
  /\ upd.pc = "actWrite"
  /\ gpio' = [gpio EXCEPT ![relayStates[upd.k].pin] = OnLevel]
  /\ upd' = [upd EXCEPT !.pc = "actFlag"]
  /\ UNCHANGED <<zones, relayStates, zoneDetectionCounts, totalDetections,
                 relayActiveHigh, now, writes, lastOp, loopVars, stop, snap>>

\* activateRelay: state->active = true, lastActivationTime, activationCount
UpdActFlag ==
  /\ upd.pc = "actFlag"
  /\ relayStates[upd.k].activationCount < MaxCount
  /\ relayStates' = [relayStates EXCEPT ![upd.k].active = TRUE,
                                        ![upd.k].lastActivationTime = now,
                                        ![upd.k].activationCount = @ + 1]
  /\ upd' = [upd EXCEPT !.pc = "act", !.j = @ + 1]
  /\ UNCHANGED <<zones, zoneDetectionCounts, totalDetections, gpio,
                 relayActiveHigh, now, writes, lastOp, loopVars, stop, snap>>

\* updateZoneState after a timeout: the scan of the other zones, then
\* deactivateRelay's test of state->active
UpdRel ==
  /\ upd.pc = "rel" /\ upd.i <= Len(zones)
  /\ IF upd.j > Len(zones[upd.i].relayPins)
     THEN upd' = [upd EXCEPT !.pc = "zone", !.i = @ + 1]
     ELSE LET k == getRelayStatePtr(relayStates, pinAt(upd)) IN
          IF ~usedByOtherZone(zones, zones[upd.i], pinAt(upd))
             /\ k # 0 /\ relayStates[k].active
          THEN upd' = [upd EXCEPT !.pc = "relWrite", !.k = k]
          ELSE upd' = [upd EXCEPT !.j = @ + 1]
  /\ UNCHANGED <<engineVars, loopVars, stop, snap>>

\* deactivateRelay: setRelayPinState(pin, false)
UpdRelWrite ==
  /\ upd.pc = "relWrite"
  /\ gpio' = [gpio EXCEPT ![relayStates[upd.k].pin] = OffLevel]
  /\ upd' = [upd EXCEPT !.pc = "relFlag"]
  /\ UNCHANGED <<zones, relayStates, zoneDetectionCounts, totalDetections,
                 relayActiveHigh, now, writes, lastOp, loopVars, stop, snap>>

\* deactivateRelay: state->active = false
UpdRelFlag ==
  /\ upd.pc = "relFlag"
  /\ relayStates' = [relayStates EXCEPT ![upd.k].active = FALSE]
  /\ upd' = [upd EXCEPT !.pc = "rel", !.j = @ + 1]
  /\ UNCHANGED <<zones, zoneDetectionCounts, totalDetections, gpio,
                 relayActiveHigh, now, writes, lastOp, loopVars, stop, snap>>

\* update() returns to loop()
UpdReturn ==
  /\ upd.pc = "done" /\ ~inBody(stop)
  /\ upd' = IdleTask
  /\ snap' = IF stop.pc = "idle" THEN << >> ELSE snap
  /\ UNCHANGED <<engineVars, loopVars, stop>>

\* handleEmergencyStop: zoneManager->disableAllRelays()
StopCall ==
  /\ stop.pc = "idle" /\ upd.pc # "done"
  /\ stop' = [IdleTask EXCEPT !.pc = "pin", !.k = 1]
  /\ snap' = IF upd.pc = "idle" THEN Engine ELSE snap
  /\ UNCHANGED <<engineVars, loopVars, upd>>

\* disableAllRelays: setRelayPinState(state.pin, false)
StopPin ==
  /\ stop.pc = "pin"
  /\ IF stop.k > Len(relayStates)
     THEN /\ stop' = [stop EXCEPT !.pc = "zones", !.i = 1]
          /\ gpio' = gpio
     ELSE /\ gpio' = [gpio EXCEPT ![relayStates[stop.k].pin] = OffLevel]
          /\ stop' = [stop EXCEPT !.pc = "flag"]
  /\ UNCHANGED <<zones, relayStates, zoneDetectionCounts, totalDetections,
                 relayActiveHigh, now, writes, lastOp, loopVars, upd, snap>>

\* disableAllRelays: state.active = false
StopFlag ==
  /\ stop.pc = "flag"
  /\ relayStates' = [relayStates EXCEPT ![stop.k].active = FALSE]
  /\ stop' = [stop EXCEPT !.pc = "pin", !.k = @ + 1]
  /\ UNCHANGED <<zones, zoneDetectionCounts, totalDetections, gpio,
                 relayActiveHigh, now, writes, lastOp, loopVars, upd, snap>>

\* disableAllRelays: zone.active = false
StopZones ==
  /\ stop.pc = "zones"
  /\ IF stop.i > Len(zones)
     THEN /\ stop' = [stop EXCEPT !.pc = "done"]
          /\ zones' = zones
     ELSE /\ zones' = [zones EXCEPT ![stop.i].active = FALSE]
          /\ stop' = [stop EXCEPT !.i = @ + 1]
  /\ UNCHANGED <<relayStates, zoneDetectionCounts, totalDetections, gpio,
                 relayActiveHigh, now, writes, lastOp, loopVars, upd, snap>>

\* disableAllRelays() returns to the handler
StopReturn ==
  /\ stop.pc = "done" /\ ~inBody(upd)
  /\ stop' = IdleTask
  /\ snap' = IF upd.pc = "idle" THEN << >> ELSE snap
  /\ UNCHANGED <<engineVars, loopVars, upd>>

\* between calls: millis() moves on, the statistics are reset
TickIdle == upd.pc = "idle" /\ stop.pc = "idle" /\ Tick

ResetIdle == upd.pc = "idle" /\ stop.pc = "idle" /\ ResetStatistics

NextTasks ==
  \/ UpdCall
  \/ UpdZone
  \/ UpdAct
  \/ UpdActWrite
  \/ UpdActFlag
  \/ UpdRel
  \/ UpdRelWrite
  \/ UpdRelFlag
  \/ UpdReturn
  \/ StopCall
  \/ StopPin
  \/ StopFlag
  \/ StopZones
  \/ StopReturn
  \/ ResetIdle
  \/ TickIdle

\* the configuration in which loop() reaches update(): autoRelayControl set,
\* with the saved zones
InitTasks == Boot /\ autoRelayControl = TRUE /\ watchdogTimeout = 60 /\ zones = SavedZones

SpecTasks == InitTasks /\ [][NextTasks]_vars

\* update() goes on through its reference Zone& zone = config->zones[i] after
\* the table has become shorter than i: the slot is past the end of the
\* vector, and what the call finds there may be any relay list, or end it
UpdFault ==
  /\ upd.pc \in {"act", "rel"} /\ upd.i > Len(zones)
  /\ upd' = [upd EXCEPT !.pc = "done"]
  /\ \E k \in 0..Len(relayStates), active \in BOOLEAN :
       /\ relayStates' = IF k = 0 THEN relayStates
                         ELSE [relayStates EXCEPT ![k].active = active]
       /\ gpio' = IF k = 0 THEN gpio
                  ELSE [gpio EXCEPT ![relayStates[k].pin] =
                                      IF active THEN OnLevel ELSE OffLevel]
  /\ UNCHANGED <<zones, zoneDetectionCounts, totalDetections,
                 relayActiveHigh, now, writes, lastOp, loopVars, stop, snap>>

\* the loop task in update() and the async TCP task in removeZone
\* (handleDeleteZone), the request taken as one step
SpecRemove ==
  InitTasks /\ [][\/ UpdCall
                  \/ UpdZone
                  \/ UpdAct
                  \/ UpdActWrite
                  \/ UpdActFlag
                  \/ UpdRel
                  \/ UpdRelWrite
                  \/ UpdRelFlag
                  \/ UpdFault
                  \/ UpdReturn
                  \/ RemoveZone
                  \/ TickIdle]_vars

----------------------------------------------------------------------------
(* The zone/relay engine: claims *)

pinsOf(zone) == {zone.relayPins[j] : j \in 1..Len(zone.relayPins)}

\* C2: after disableAllRelays() every relay of the relay table reports OFF,
\* its pin is at the OFF level of the configured polarity, and no zone is
\* active, whatever the state before the call.
C2_EmergencyStopTotal ==
  lastOp.op = "disableAllRelays" =>
    /\ \A k \in 1..Len(relayStates) :
         /\ ~getRelayState(relayStates, relayStates[k].pin)
         /\ gpio[relayStates[k].pin] = OffLevel
    /\ \A i \in 1..Len(zones) : ~zones[i].active

\* the stop met an active zone whose timeout had not expired and a relay that
\* was switched on by hand
C2_Witness ==
  /\ lastOp.op = "disableAllRelays"
  /\ {"hadActiveZone", "hadManualOn"} \subseteq lastOp.tags

\* C5: in an update() call, a zone that no detection overlaps keeps its
\* lastDetectionTime, and is active after the call exactly when it was active
\* before and less than timeout * 1000 ms have passed since lastDetectionTime.
C5_TimeoutExact ==
  [][\A detections \in DetectionSets :
       (lastOp'.op = "update" /\ UpdateWith(detections)) =>
         \A i \in 1..Len(zones) :
           ~overlapped(zones[i], detections) =>
             /\ zones'[i].lastDetectionTime = zones[i].lastDetectionTime
             /\ zones'[i].active =
                  (zones[i].active
                   /\ now - zones[i].lastDetectionTime < zones[i].timeout * 1000)]_vars

\* one call in which a zone past its last detection stayed active and another
\* one reached its timeout
C5_Witness ==
  /\ lastOp.op = "update"
  /\ {"kept", "timedOut"} \subseteq lastOp.tags

\* C6: in an update() call, every zone that a detection overlaps is active
\* after the call with lastDetectionTime the time of the call, whether it was
\* active before or not and whether its timeout had elapsed or not.
C6_DetectionActivates ==
  [][\A detections \in DetectionSets :
       (lastOp'.op = "update" /\ UpdateWith(detections)) =>
         \A i \in 1..Len(zones) :
           overlapped(zones[i], detections) =>
             /\ zones'[i].active
             /\ zones'[i].lastDetectionTime = now]_vars

\* one call that activated an inactive zone and refreshed an active one whose
\* timeout had already elapsed
C6_Witness ==
  /\ lastOp.op = "update"
  /\ {"activated", "lateRefresh"} \subseteq lastOp.tags

\* C10: activateRelay or deactivateRelay on a known relay that already holds
\* the commanded state writes no pin and leaves the relay table as it was;
\* otherwise it writes once.  Of two consecutive activateRelay(pin) calls the
\* second writes nothing, so the two write once when the relay was off before
\* the first (and not at all when it was on).
C10_CommandIdempotent ==
  [][\A pin \in PinSet :
       /\ (lastOp'.arg = pin /\ ActivateRelayPin(pin)
              /\ getRelayStatePtr(relayStates, pin) # 0) =>
            /\ getRelayState(relayStates', pin)
            /\ IF getRelayState(relayStates, pin)
               THEN writes' = 0 /\ gpio' = gpio /\ relayStates' = relayStates
               ELSE writes' = 1
            /\ (lastOp.op = "activateRelay" /\ lastOp.arg = pin) =>
                 /\ writes' = 0
                 /\ writes + writes' = IF "wasOff" \in lastOp.tags THEN 1 ELSE 0
       /\ (lastOp'.arg = pin /\ DeactivateRelayPin(pin)
              /\ getRelayStatePtr(relayStates, pin) # 0) =>
            /\ ~getRelayState(relayStates', pin)
            /\ IF getRelayState(relayStates, pin)
               THEN writes' = 1
               ELSE writes' = 0 /\ gpio' = gpio /\ relayStates' = relayStates]_vars

\* the second of two consecutive activateRelay(pin) calls, the first of which
\* switched the relay on
C10_Witness ==
  /\ lastOp.op = "activateRelay"
  /\ {"wasOn", "repeatAfterWrite"} \subseteq lastOp.tags

\* C3: with no manual relay command in play, a relay of the relay table is ON
\* exactly when at least one zone that references it is active.
C3_RelayIsOrOfZones ==
  \A k \in 1..Len(relayStates) :
    relayStates[k].active <=>
      \E i \in 1..Len(zones) :
        zones[i].active /\ relayStates[k].pin \in pinsOf(zones[i])

\* C4: in an update() call, for every zone that the call deactivates by timeout
\* and every relay p it references: if another zone that is active after the
\* call references p, p is not switched off; if no other zone active after the
\* call references p, p is OFF after the call.  A relay referenced by no zone
\* that the call deactivated or detected keeps its state.
C4_SharedRelayRelease ==
  [][\A detections \in DetectionSets :
       (lastOp'.op = "update" /\ UpdateWith(detections)) =>
         /\ \A i \in 1..Len(zones) :
              (zones[i].active /\ ~zones'[i].active) =>
                \A p \in pinsOf(zones[i]) :
                  IF \E k \in 1..Len(zones) :
                       k # i /\ zones'[k].active /\ p \in pinsOf(zones[k])
                  THEN getRelayState(relayStates, p) => getRelayState(relayStates', p)
                  ELSE ~getRelayState(relayStates', p)
         /\ \A p \in PinSet :
              (\A i \in 1..Len(zones) :
                 p \in pinsOf(zones[i]) =>
                   /\ zones'[i].active = zones[i].active
                   /\ ~overlapped(zones[i], detections)) =>
                getRelayState(relayStates', p) = getRelayState(relayStates, p)]_vars

\* C9: removeZone(id) on an active zone leaves ON every relay of the zone that
\* another active zone references, and switches OFF its other relays.
C9_RemoveKeepsShared ==
  [][\A zoneId \in ZoneIds :
       (lastOp'.op = "removeZone" /\ RemoveZoneId(zoneId)) =>
         LET i == findZone(zones, zoneId) IN
         (i # 0 /\ zones[i].active) =>
           \A p \in pinsOf(zones[i]) :
             IF \E k \in 1..Len(zones) :
                  k # i /\ zones[k].active /\ p \in pinsOf(zones[k])
             THEN getRelayState(relayStates, p) => getRelayState(relayStates', p)
             ELSE ~getRelayState(relayStates', p)]_vars

\* a zone request that the engine has to refuse in the current state
refused(op, zoneId) ==
  \/ op = "addZone" /\ Len(zones) >= MAX_ZONES
  \/ op \in {"removeZone", "updateZone"} /\ \A i \in 1..Len(zones) : zones[i].id # zoneId

\* C19: addZone on a table of MAX_ZONES zones, and removeZone and updateZone
\* with an id no zone has, report failure and leave the zones, the counters,
\* the relay table and the pin levels as they were.
C19_RefusedLeavesState ==
  [][refused(lastOp'.op, lastOp'.arg) =>
       /\ lastOp'.tags = {"failed"}
       /\ UNCHANGED <<zones, zoneDetectionCounts, totalDetections, relayStates, gpio>>]_vars

C19_Witness ==
  /\ lastOp.op = "addZone" /\ lastOp.tags = {"failed"}
  /\ Len(zones) = MAX_ZONES
  /\ \E k \in 1..Len(relayStates) : relayStates[k].active
  /\ \A i \in 1..Len(zones) : zones[i].id = 1

\* C22: until the first engine operation after setup(), every relay pin is at
\* its logical-OFF level, whatever the polarity.
C22_PinsOffAfterBoot ==
  lastOp.op = "setup" => \A p \in PinSet : gpio[p] = OffLevel

\* C38: the timeout test says expired exactly when the real time since the
\* last detection is at least timeout seconds.
C38_TimeoutMatchesRealTime ==
  lastOp.op = "timeout" =>
    ("expired" \in lastOp.tags <=> (lastOp.arg[3] \div 1000) >= lastOp.arg[1])

\* C37: the detection-counter list is as long as the zone table, and a
\* removeZone call leaves the counter reported for the id of every remaining
\* zone as it was.
C37_CountersFollowZones ==
  [][/\ Len(zoneDetectionCounts') = Len(zones')
     /\ lastOp'.op = "removeZone" =>
          \A i \in 1..Len(zones') :
            LET reported(zs, counts) ==
                  IF findZone(zs, zones'[i].id) = 0 THEN 0
                  ELSE counts[findZone(zs, zones'[i].id)]
            IN reported(zones', zoneDetectionCounts') = reported(zones, zoneDetectionCounts)]_vars

C33_UpdateTouchesOwnRelays ==
  [][lastOp'.op = "update" =>
       \A detections \in DetectionSets :
         Engine' = [update(Engine, detections, FRAME_WIDTH, FRAME_HEIGHT, now)
                      EXCEPT !.writes = 0] =>
           LET names(i, pin) ==
                 \E j \in 1..Len(zones[i].relayPins) : zones[i].relayPins[j] = pin
               hit(pin) ==
                 \E i \in 1..Len(zones) :
                   names(i, pin) /\ overlapped(zones[i], detections)
               released(pin) ==
                 \E i \in 1..Len(zones) :
                   names(i, pin) /\ zones[i].active /\ ~zones'[i].active
           IN /\ Len(relayStates') = Len(relayStates)
              /\ \A k \in 1..Len(relayStates) :
                   LET pin == relayStates[k].pin IN
                   /\ relayStates'[k].pin = pin
                   /\ (~relayStates[k].active /\ relayStates'[k].active) => hit(pin)
                   /\ (relayStates[k].active /\ ~relayStates'[k].active) => released(pin)
                   /\ ~(hit(pin) \/ released(pin)) =>
                        /\ relayStates'[k] = relayStates[k]
                        /\ gpio'[pin] = gpio[pin]
              /\ \A p \in GpioPins :
                   getRelayStatePtr(relayStates, p) = 0 => gpio'[p] = gpio[p]]_vars

\* update() has activated a zone while a relay that no active zone names,
\* switched ON by hand, stays ON
C33_Witness ==
  /\ lastOp.op = "update" /\ "activated" \in lastOp.tags
  /\ \E k \in 1..Len(relayStates) :
       /\ relayStates[k].active
       /\ \A i \in 1..Len(zones) :
            zones[i].active =>
              \A j \in 1..Len(zones[i].relayPins) :
                zones[i].relayPins[j] # relayStates[k].pin

\* C32: one update() call adds 1 to the counter of each zone that at least one
\* detection overlaps and nothing to the others, and adds the number of such
\* zones to totalDetections; in every state totalDetections is at least the
\* sum of the per-zone counters.
C32_DetectionCounts ==
  [][LET RECURSIVE SumFrom(_, _)
         SumFrom(counts, i) ==
           IF i > Len(counts) THEN 0 ELSE counts[i] + SumFrom(counts, i + 1)
     IN /\ totalDetections' >= SumFrom(zoneDetectionCounts', 1)
        /\ lastOp'.op = "update" =>
             \A detections \in CrowdSets :
               Engine' = [update(Engine, detections, FRAME_WIDTH, FRAME_HEIGHT, now)
                            EXCEPT !.writes = 0] =>
                 LET hit == {i \in 1..Len(zones) : overlapped(zones[i], detections)}
                 IN /\ Len(zoneDetectionCounts') = Len(zoneDetectionCounts)
                    /\ \A i \in 1..Len(zones) :
                         zoneDetectionCounts'[i] =
                           zoneDetectionCounts[i] + (IF i \in hit THEN 1 ELSE 0)
                    /\ totalDetections' = totalDetections + Cardinality(hit)]_vars

\* update() has counted once a zone that two detections of the frame overlap
C32_Witness ==
  /\ lastOp.op = "update"
  /\ "crowd" \in lastOp.tags
  /\ \E i \in 1..Len(zones) : zones[i].active /\ zoneDetectionCounts[i] = 1
  /\ totalDetections = 1

\* C30: the pin of every relay of the relay table is HIGH exactly when the
\* relay's active flag equals relayActiveHigh.
C30_LevelFollowsPolarity ==
  \A k \in 1..Len(relayStates) :
    gpio[relayStates[k].pin] = "HIGH" <=> (relayStates[k].active = relayActiveHigh)

\* an active-low board after update() has turned a relay ON, with a relay
\* that a request added at run time still OFF
C30_Witness ==
  /\ lastOp.op = "update" /\ ~relayActiveHigh
  /\ \E k \in 1..Len(relayStates) : relayStates[k].active
  /\ \E k \in 1..Len(relayStates) : relayStates[k].pin = 6 /\ ~relayStates[k].active

\* C29: a manual activateRelay(pin) or deactivateRelay(pin) leaves every zone,
\* every detection counter, every other relay and every other pin as they
\* were; of the named relay it changes the active flag and the pin level, and
\* lastActivationTime and activationCount (+1) on an OFF-to-ON transition only.
C29_ManualRelayFrame ==
  [][lastOp'.op \in {"activateRelay", "deactivateRelay"} =>
       LET pin == lastOp'.arg
           turnedOn == lastOp'.op = "activateRelay"
       IN /\ zones' = zones
          /\ zoneDetectionCounts' = zoneDetectionCounts
          /\ totalDetections' = totalDetections
          /\ Len(relayStates') = Len(relayStates)
          /\ \A p \in GpioPins \ {pin} : gpio'[p] = gpio[p]
          /\ getRelayStatePtr(relayStates, pin) = 0 => gpio' = gpio
          /\ \A k \in 1..Len(relayStates) :
               IF relayStates[k].pin # pin
               THEN relayStates'[k] = relayStates[k]
               ELSE /\ relayStates'[k].pin = pin
                    /\ relayStates'[k].active = turnedOn
                    /\ gpio'[pin] = IF turnedOn THEN OnLevel ELSE OffLevel
                    /\ IF turnedOn /\ ~relayStates[k].active
                       THEN /\ relayStates'[k].lastActivationTime = now
                            /\ relayStates'[k].activationCount =
                                 relayStates[k].activationCount + 1
                       ELSE /\ relayStates'[k].lastActivationTime =
                                 relayStates[k].lastActivationTime
                            /\ relayStates'[k].activationCount =
                                 relayStates[k].activationCount]_vars

\* a manual OFF of a relay that was ON, made while a zone is active and the
\* other relay is ON
C29_Witness ==
  /\ lastOp.op = "deactivateRelay" /\ "wasOn" \in lastOp.tags
  /\ \E i \in 1..Len(zones) : zones[i].active
  /\ \E k \in 1..Len(relayStates) : relayStates[k].active

\* C28: when update() returns, every relay pin of every zone that one of its
\* detections overlapped is ON, logically and on the pin.
C28_OverlapTurnsRelaysOn ==
  [][lastOp'.op = "update" =>
       \A detections \in DetectionSets :
         LET post == update(Engine, detections, FRAME_WIDTH, FRAME_HEIGHT, now)
         IN (zones' = post.zones /\ relayStates' = post.relayStates /\ gpio' = post.gpio) =>
              \A i \in 1..Len(zones) :
                overlapped(zones[i], detections) =>
                  \A j \in 1..Len(zones[i].relayPins) :
                    /\ getRelayState(relayStates', zones[i].relayPins[j])
                    /\ gpio'[zones[i].relayPins[j]] = OnLevel]_vars

\* C24: no two entries of the zone list have the same id.
C24_ZoneIdsUnique ==
  \A i, j \in 1..Len(zones) : zones[i].id = zones[j].id => i = j

\* C23: no pin outside the safe-pin list is ever in the relay table, and GPIO
\* 6 is never configured as an output or written.
C23_UnsafePinsRejected ==
  /\ \A k \in 1..Len(relayStates) : validateGPIOPin(relayStates[k].pin)
  /\ gpio[6] = "INPUT"

\* C20: a manual relay command for a pin that is not in the relay table is
\* answered with a failure, never with a success.
C20_UnknownPinFails ==
  (lastOp.op \in {"activateRelay", "deactivateRelay"} /\ "unknown" \in lastOp.tags) =>
    ("failure" \in lastOp.tags /\ "success" \notin lastOp.tags)

\* the area that two pixel rectangles have in common
commonArea(a, b) ==
  LET lo(p, q) == IF p > q THEN p ELSE q
      hi(p, q) == IF p < q THEN p ELSE q
      w == hi(a.x + a.width, b.x + b.width) - lo(a.x, b.x)
      h == hi(a.y + a.height, b.y + b.height) - lo(a.y, b.y)
  IN  IF w > 0 /\ h > 0 /\ a.width > 0 /\ a.height > 0 /\ b.width > 0 /\ b.height > 0
      THEN w * h ELSE 0

\* C21: checkOverlap returns true exactly when the detection box, in integer
\* pixels, and the zone rectangle have an intersection of positive area.
C21_OverlapIsPositiveArea ==
  lastOp.op = "checkOverlap" =>
    ("overlap" \in lastOp.tags <=>
       commonArea(pixelBox(lastOp.arg[1], FRAME_WIDTH, FRAME_HEIGHT), lastOp.arg[2]) > 0)

----------------------------------------------------------------------------
(* The control loop: claims *)

\* C1: after a loop() tick made more than WATCHDOG_TIMEOUT ms after the last
\* frame that fetchFrame returned, every relay of the relay table is OFF and
\* every zone is inactive.
C1_WatchdogForcesOff ==
  (lastOp.op = "loop" /\ lastFetched >= 0
   /\ lastOp.arg - lastFetched > WATCHDOG_TIMEOUT) =>
    /\ \A k \in 1..Len(relayStates) :
         ~relayStates[k].active /\ gpio[relayStates[k].pin] = OffLevel
    /\ \A i \in 1..Len(zones) : ~zones[i].active

\* C27: on every session, disconnect() leaves connected false; a second
\* disconnect() changes nothing more and releases nothing, and on a session
\* that is not connected the first one changes and releases nothing either.
C27_DisconnectIdempotent ==
  LET session == [connected |-> connected, clientConnected |-> clientConnected]
      once == disconnect(session)
      twice == disconnect(once)
  IN /\ ~once.connected
     /\ twice.connected = once.connected
     /\ twice.clientConnected = once.clientConnected
     /\ once.released + twice.released <= 1
     /\ ~connected =>
          /\ once.clientConnected = clientConnected
          /\ once.released = 0

\* a session that was connected and has been disconnected
C27_Witness == ~connected /\ ~clientConnected /\ lastFetched >= 0

\* C25: a loop() tick that reaches the watchdog test takes the watchdog branch
\* exactly when more than watchdogTimeout seconds have passed since
\* lastFrameTime.
C25_WatchdogUsesConfig ==
  [][(lastOp'.op = "loop" /\ wifiUp /\ isConnected) =>
       ("watchdog" \in lastOp'.tags <=>
          now - frameTimeAfterConnect > watchdogTimeout * 1000)]_vars

\* C14: lastFrameTime changes only in a loop() tick in which fetchFrame
\* returned a frame.
C14_FrameTimeOnlyOnFrame ==
  [][lastFrameTime' # lastFrameTime =>
       (lastOp'.op = "loop" /\ "frame" \in lastOp'.tags)]_vars

\* C17: every loop() tick in which fetchFrame returned a frame calls
\* ZoneManager::update.
C17_UpdatePerFrame ==
  (lastOp.op = "loop" /\ "frame" \in lastOp.tags) => "update" \in lastOp.tags

\* C15: once a loop() tick has seen fetchFrame fail and the stream is
\* disconnected, and no start-camera request arrives, a later loop() tick
\* makes a reconnect attempt or the stream is connected again.
C15_LoopReconnects ==
  (lastOp.op = "loop" /\ "fetchFailed" \in lastOp.tags /\ ~isConnected)
    ~> (isConnected \/ (lastOp.op = "loop" /\ "reconnect" \in lastOp.tags))

\* C18: at most one frame buffer handed out by fetchFrame is allocated and
\* not yet released, at any time.
C18_OneLiveFrame == liveFrames <= 1

----------------------------------------------------------------------------
(* The stream session: claims *)

\* C36: when connected is false in a session that was opened, the HTTP client
\* of the session has been released.
C36_DisconnectedIsReleased ==
  (stream.kind # "none" /\ ~connected) => ~httpOpen

\* C35: findBoundaryInBuffer compares only bytes at indices below bufferPos,
\* whatever the fill level of the buffer.
C35_ScanBelowBufferPos ==
  fetch.pc = "scan" => \A index \in scannedBytes(buffer) : index < Len(buffer)

\* C31: a single-frame fetchFrame call makes at most MaxReadAttempts + 1
\* readMoreData calls (readAttempts counts the calls that let the loop go on,
\* one more call ends it), and it returns with the buffer empty, with a frame
\* or without one.
C31_SingleFrameReadsBounded ==
  [][/\ fetch'.pc \in {"single", "singleEnd"} =>
          fetch'.readAttempts <= MaxReadAttempts
     /\ (fetch.pc = "singleEnd" /\ fetch' # fetch) =>
          /\ fetch' = IdleFetch
          /\ buffer' = << >>
          /\ delivered' # delivered => Len(delivered') = Len(delivered) + 1]_vars

\* the loop has been ended by its 51st readMoreData call
C31_Witness ==
  fetch.pc = "singleEnd" /\ fetch.readAttempts = MaxReadAttempts

\* C26: a session is in multipart mode exactly when its Content-Type header
\* carries a boundary token; every other header gives single-frame mode.
C26_NoBoundarySingleFrame ==
  stream.kind # "none" =>
    (boundaryFound <=>
       \E k \in 1..Len(stream.contentType) : stream.contentType[k] = "boundary=")

C12_Resynchronizes ==
  /\ Len(buffer) <= BufferSize
  /\ (stream.kind = "oversized" /\ wire = << >> /\ clientConnected /\ fetch.pc = "read")
       => delivered = stream.frames

\* C13: every fetchFrame call returns.
C13_FetchReturns == (fetch.pc # "idle") ~> (fetch.pc = "idle")

\* C16: in single-frame mode, once fetchFrame has returned a frame and
\* disconnected, the stream is connected again by a new request of the
\* device's own.
C16_SingleFrameReconnects ==
  (~boundaryFound /\ delivered # << >> /\ fetch.pc = "idle" /\ ~connected) ~> connected

----------------------------------------------------------------------------
(* Two tasks in the engine: claims *)

====
